---- MODULE Spec2Model ----
(***************************************************************************)
(* Verification model of x11_get_windows: the lazily memoized Session      *)
(* fields (util/rwlock.rs), the property decoding of Session and Window    *)
(* (session.rs, window.rs) and the lifetime of the native connection       *)
(* (display.rs).                                                           *)
(*                                                                         *)
(* Five specifications share the module:                                   *)
(*   SpecCell  threads calling RwLockCell::get_or_insert_with on one cell  *)
(*   Spec      one Session decoding property responses of the server       *)
(*   SpecConn  Display / Session / Window values sharing native            *)
(*             connections through Rc<Display>                             *)
(*   SpecWin   one Window: get_title and WindowTitle, capture and XImg,    *)
(*             send_key / send_btn, XColor's grayscale functions           *)
(*             (window.rs, event/key_event.rs, event/btn_event.rs)         *)
(*   SpecCellFair  SpecCell under fair scheduling of the threads           *)
(* Each specification holds the variables of the others at their initial   *)
(* values.                                                                 *)
(***************************************************************************)
EXTENDS Integers, Sequences, FiniteSets

VARIABLES
    \* ---- SpecCell: RwLock<Option<T>> and its callers
    pc,           \* per thread: position inside get_or_insert_with
    readers,      \* threads holding a read guard of the RwLock
    writer,       \* thread holding the write guard, or NoThread
    cell,         \* the Option<T>: 0 is None, v > 0 is Some(value made by the v-th run of f)
    resolutions,  \* number of times an initializer closure f has run
    ret,          \* per thread: the value its last call returned a reference to (0: none yet)
    calls,        \* per thread: number of calls started
    \* ---- Spec: one Session and the server it queries
    titles,       \* server: per window, the buffer XGetWMName returns (<<>> is the null pointer)
    prop,         \* server: the property read by the last operation (type, format, items)
    op,           \* the last Session operation run
    name,         \* the name argument of get_window_by_name
    resp,         \* what get_window_property returned to the operation
    result,       \* what the operation returned
    examined,     \* the windows whose title the operation requested, in order
    propFrees,    \* XFree calls the operation made on the property buffer
    titleAllocs,  \* non-null title buffers the server handed to the operation
    titleFrees,   \* XFree calls the operation made on title buffers
    \* ---- SpecConn: native connections and the values that own or share them
    nextConn,     \* number of connections XOpenDisplay has handed out
    displays,     \* per pointer: Display values (outside any Rc) wrapping it
    raws,         \* per pointer: raw pointers into_raw gave the caller, not yet re-wrapped
    intoRaws,     \* per pointer: calls of into_raw on a Display wrapping it
    sessions,     \* per pointer: whether a Session sharing it is alive
    root_window,  \* per pointer: whether that Session's root_window cache is resolved
    windows,      \* per pointer: live Window values other than the cached root
    strong,       \* per pointer: strong count of its Rc<Display>
    closeCalls,   \* per pointer: XCloseDisplay calls made on it
    lastOpen,     \* outcome of the last Display::open / Session::open
    \* ---- SpecWin: one Window and the values it hands out
    wop,          \* the last Window / WindowTitle / XImg / XColor operation run
    req,          \* the arguments of the last send_key / send_btn
    attr,         \* what XGetWindowAttributes filled in for the last operation
    events,       \* the XSendEvent calls the last operation made, in order
    wtitle,       \* the WindowTitle value get_title returned, and its buffer
    img,          \* the XImg value capture returned
    heap,         \* Xlib allocations: per block "none", "live" or "freed"
    xfrees,       \* per block: XFree calls made on its address
    got,          \* what the last XImg / WindowTitle accessor returned
    panicked,     \* whether an operation panicked
    gray          \* the last XColor conversion: channels, value before the cast, result

cellVars == <<pc, readers, writer, cell, resolutions, ret, calls>>

propVars == <<titles, prop, op, name, resp, result, examined, propFrees,
              titleAllocs, titleFrees>>

connVars == <<nextConn, displays, raws, intoRaws, sessions, root_window, windows,
              strong, closeCalls, lastOpen>>

winVars == <<wop, req, attr, events, wtitle, img, heap, xfrees, got, panicked, gray>>

vars == <<cellVars, propVars, connVars, winVars>>

\* What each specification leaves alone.
CellFrame == UNCHANGED <<propVars, connVars, winVars>>
PropFrame == UNCHANGED <<cellVars, connVars, winVars>>
ConnFrame == UNCHANGED <<cellVars, propVars, winVars>>
WinFrame == UNCHANGED <<cellVars, propVars, connVars>>

\* ------------------------------------------------------------------ bounds
NThreads == 2
MaxCalls == 2
MaxItems == 2     \* longest property value the server holds
MaxConns == 1     \* connections the server accepts
MaxWindows == 3   \* live Window values per connection
MaxIntoRaw == 2   \* into_raw calls per connection
MaxDim == 3       \* largest width and height of a window

Threads == 1..NThreads
NoThread == 0

\* ------------------------------------------------------------------
\* util/rwlock.rs: RwLockCell::get_or_insert_with
\* ------------------------------------------------------------------

CellInit ==
    /\ pc = [t \in Threads |-> "idle"]
    /\ readers = {}
    /\ writer = NoThread
    /\ cell = 0
    /\ resolutions = 0
    /\ ret = [t \in Threads |-> 0]
    /\ calls = [t \in Threads |-> 0]

\* A thread enters the accessor (Session::root / client_list / active_list).
Call(t) ==
    /\ pc[t] = "idle"
    /\ calls[t] < MaxCalls
    /\ pc' = [pc EXCEPT ![t] = "read"]
    /\ calls' = [calls EXCEPT ![t] = @ + 1]
    /\ UNCHANGED <<readers, writer, cell, resolutions, ret>>
    /\ CellFrame

\* let read = self.read().unwrap();   (blocks while a writer holds the lock)
AcquireRead(t) ==
    /\ pc[t] = "read"
    /\ writer = NoThread
    /\ readers' = readers \cup {t}
    /\ pc' = [pc EXCEPT ![t] = "check"]
    /\ UNCHANGED <<writer, cell, resolutions, ret, calls>>
    /\ CellFrame

\* if let Some(val) = read.as_ref() { transmute(val) }  -- the read guard is
\* dropped as the function returns the reference.
ReturnCached(t) ==
    /\ pc[t] = "check"
    /\ cell # 0
    /\ ret' = [ret EXCEPT ![t] = cell]
    /\ readers' = readers \ {t}
    /\ pc' = [pc EXCEPT ![t] = "idle"]
    /\ UNCHANGED <<writer, cell, resolutions, calls>>
    /\ CellFrame

\* The None branch going on to self.write() with the read guard still held.
KeepRead(t) ==
    /\ pc[t] = "check"
    /\ cell = 0
    /\ pc' = [pc EXCEPT ![t] = "write"]
    /\ UNCHANGED <<readers, writer, cell, resolutions, ret, calls>>
    /\ CellFrame

\* else { drop(read);
DropRead(t) ==
    /\ pc[t] = "check"
    /\ cell = 0
    /\ readers' = readers \ {t}
    /\ pc' = [pc EXCEPT ![t] = "write"]
    /\ UNCHANGED <<writer, cell, resolutions, ret, calls>>
    /\ CellFrame

\* let mut write = self.write().unwrap();   (exclusive: no reader, no writer)
AcquireWrite(t) ==
    /\ pc[t] = "write"
    /\ writer = NoThread
    /\ readers = {}
    /\ writer' = t
    /\ pc' = [pc EXCEPT ![t] = "store"]
    /\ UNCHANGED <<readers, cell, resolutions, ret, calls>>
    /\ CellFrame

\* f runs but its value never reaches the Option behind the write guard.
StoreEmpty(t) ==
    /\ pc[t] = "store"
    /\ resolutions' = resolutions + 1
    /\ pc' = [pc EXCEPT ![t] = "return"]
    /\ UNCHANGED <<readers, writer, cell, ret, calls>>
    /\ CellFrame

\* *write = Some(f());   f runs and its value replaces whatever the cell holds.
Store(t) ==
    /\ pc[t] = "store"
    /\ resolutions' = resolutions + 1
    /\ cell' = resolutions + 1
    /\ pc' = [pc EXCEPT ![t] = "return"]
    /\ UNCHANGED <<readers, writer, ret, calls>>
    /\ CellFrame

\* transmute(write.as_ref().unwrap()) }   -- the write guard is dropped on return.
ReturnStored(t) ==
    /\ pc[t] = "return"
    /\ ret' = [ret EXCEPT ![t] = cell]
    /\ writer' = NoThread
    /\ pc' = [pc EXCEPT ![t] = "idle"]
    /\ UNCHANGED <<readers, cell, resolutions, calls>>
    /\ CellFrame

CellNext ==
    \E t \in Threads :
        \/ Call(t)
        \/ AcquireRead(t)
        \/ ReturnCached(t)
        \/ DropRead(t)
        \/ AcquireWrite(t)
        \/ Store(t)
        \/ ReturnStored(t)


\* ------------------------------------------------------------------
\* The server side of a property read: Xlib's XGetWindowProperty and
\* XGetWMName as the crate's util::get_window_property and Window see them.
\* ------------------------------------------------------------------

XA_WINDOW == 33

\* The type atoms a property may carry: XA_CARDINAL (6) and XA_WINDOW.
TypePool == {6, XA_WINDOW}

\* Element widths a response may report; 0 stands for every width that is
\* none of 8, 16, 32.
FormatPool == {0, 8, 16, 32}

\* Window identifiers of the server. The narrow ones fit one byte.
IdPool == {10, 20, 300}
NarrowIds == {w \in IdPool : w < 256}

\* Titles, as NUL-terminated buffers: "Ch", "Fi"; <<>> is the null pointer.
NullPtr == <<>>
TitlePool == {NullPtr, <<67, 104, 0>>, <<70, 105, 0>>}

\* Names a caller searches for: "Ch", "Fi", "C".
NamePool == {<<67, 104>>, <<70, 105>>, <<67>>}

SeqsUpTo(S, n) == UNION {[1..k -> S] : k \in 0..n}

\* Bytes per element of the buffer Xlib hands out: char, short, long.
XlibElemBytes(format) ==
    CASE format = 16 -> 2
      [] format = 32 -> 8
      [] OTHER -> 1

\* The w little-endian bytes of v.
RECURSIVE LeBytes(_, _)
LeBytes(v, w) == IF w = 0 THEN <<>> ELSE <<v % 256>> \o LeBytes(v \div 256, w - 1)

\* The buffer holding items, w bytes each.
RECURSIVE Encode(_, _)
Encode(items, w) ==
    IF items = <<>> THEN <<>> ELSE LeBytes(Head(items), w) \o Encode(Tail(items), w)

\* The property values the server may hold.
Properties ==
    {[type |-> ty, format |-> f, items |-> its] :
        ty \in TypePool, f \in FormatPool,
        its \in SeqsUpTo(IdPool, MaxItems)} \ 
    {[type |-> ty, format |-> f, items |-> its] :
        ty \in TypePool, f \in {0, 8},
        its \in SeqsUpTo(IdPool, MaxItems) \ SeqsUpTo(NarrowIds, MaxItems)}

NoProperty == [type |-> 0, format |-> 0, items |-> <<>>]

\* util::get_window_property: Err(NotSupported), or the response for p with
\* its server-allocated buffer.
ErrResponse ==
    [ok |-> FALSE, actual_type_return |-> 0, actual_format_return |-> 0,
     nitems_return |-> 0, proper_return |-> <<>>]

get_window_property(p) ==
    [ok |-> TRUE, actual_type_return |-> p.type, actual_format_return |-> p.format,
     nitems_return |-> Len(p.items),
     proper_return |-> Encode(p.items, XlibElemBytes(p.format))]

\* ------------------------------------------------------------------
\* session.rs / window.rs: decoding a response
\* ------------------------------------------------------------------

\* A Window element read as a u32 instead of a usize.
U32Bytes == 8 \div 2

\* size_of::<usize>() on the 64-bit targets Xlib's long matches.
WordBytes == 8

\* The value of a little-endian byte string.
RECURSIVE LeValue(_)
LeValue(bs) == IF bs = <<>> THEN 0 ELSE Head(bs) + 256 * LeValue(Tail(bs))

\* slice::from_raw_parts(ptr as *mut uN, n).iter().map(|x| *x as XWindow),
\* for elements of w bytes.
from_raw_parts(buf, w, n) ==
    [i \in 1..n |-> LeValue(SubSeq(buf, (i - 1) * w + 1, i * w))]

\* <[T]>::first as a sequence of at most one element.
first(s) == IF Len(s) = 0 THEN <<>> ELSE <<s[1]>>

\* CStr::from_ptr(p).to_bytes(): the bytes before the first NUL.
RECURSIVE to_bytes(_)
to_bytes(buf) ==
    IF buf = <<>> \/ Head(buf) = 0 THEN <<>> ELSE <<Head(buf)>> \o to_bytes(Tail(buf))

\* XGetWMName(display, window, &mut text_property): text_property.value.
XGetWMName(w) == titles[w]

\* Window::match_title: whether the title bytes equal the candidate, with the
\* title buffers the call obtained and released.
match_title(w, title) ==
    LET value == XGetWMName(w) IN
    IF value # NullPtr
    THEN [matched |-> to_bytes(value) = title, allocs |-> 1, frees |-> 0]
    ELSE [matched |-> FALSE, allocs |-> 0, frees |-> 0]

\* A search that keeps the last match instead of stopping at the first.
RECURSIVE find_last(_, _, _)
find_last(ws, i, nm) ==
    IF i > Len(ws)
    THEN [found |-> <<>>, examined |-> <<>>, allocs |-> 0, frees |-> 0]
    ELSE LET m == match_title(ws[i], nm)
             rest == find_last(ws, i + 1, nm) IN
         [found |-> IF rest.found # <<>> THEN rest.found
                    ELSE IF m.matched THEN <<ws[i]>> ELSE <<>>,
          examined |-> <<ws[i]>> \o rest.examined,
          allocs |-> m.allocs + rest.allocs, frees |-> m.frees + rest.frees]

\* .iter().map(..).find(|it| it.match_title(name)) from position i on: the
\* iterator is lazy, so the windows after the first match are never built.
RECURSIVE find(_, _, _)
find(ws, i, nm) ==
    IF i > Len(ws)
    THEN [found |-> <<>>, examined |-> <<>>, allocs |-> 0, frees |-> 0]
    ELSE LET m == match_title(ws[i], nm) IN
         IF m.matched
         THEN [found |-> <<ws[i]>>, examined |-> <<ws[i]>>,
               allocs |-> m.allocs, frees |-> m.frees]
         ELSE LET rest == find(ws, i + 1, nm) IN
              [found |-> rest.found, examined |-> <<ws[i]>> \o rest.examined,
               allocs |-> m.allocs + rest.allocs, frees |-> m.frees + rest.frees]

Outcome(tag, ws, nfree) == [tag |-> tag, windows |-> ws, frees |-> nfree]

\* get_windows without the XFree of its unsupported-width branch.
get_windows_leak(r) ==
    IF ~r.ok THEN Outcome("NotSupported", <<>>, 0)
    ELSE IF r.actual_type_return = XA_WINDOW
    THEN CASE r.actual_format_return = 8 ->
                Outcome("Ok", from_raw_parts(r.proper_return, 1, r.nitems_return), 1)
           [] r.actual_format_return = 16 ->
                Outcome("Ok", from_raw_parts(r.proper_return, 2, r.nitems_return), 1)
           [] r.actual_format_return = 32 ->
                Outcome("Ok", from_raw_parts(r.proper_return, WordBytes, r.nitems_return), 1)
           [] OTHER -> Outcome("NotSupported", <<>>, 0)
    ELSE Outcome("NotSupported", <<>>, 1)

\* Session::get_windows on response r: the outcome, the Window identifiers
\* and the XFree calls made on r's buffer.
get_windows(r) ==
    IF ~r.ok THEN Outcome("NotSupported", <<>>, 0)
    ELSE IF r.actual_type_return = XA_WINDOW
    THEN CASE r.actual_format_return = 8 ->
                Outcome("Ok", from_raw_parts(r.proper_return, 1, r.nitems_return), 1)
           [] r.actual_format_return = 16 ->
                Outcome("Ok", from_raw_parts(r.proper_return, 2, r.nitems_return), 1)
           [] r.actual_format_return = 32 ->
                Outcome("Ok", from_raw_parts(r.proper_return, WordBytes, r.nitems_return), 1)
           [] OTHER -> Outcome("NotSupported", <<>>, 1)
    ELSE Outcome("NotSupported", <<>>, 1)

Search(tag, f, nfree) ==
    [tag |-> tag, windows |-> f.found, frees |-> nfree, examined |-> f.examined,
     titleAllocs |-> f.allocs, titleFrees |-> f.frees]

NoSearch == [found |-> <<>>, examined |-> <<>>, allocs |-> 0, frees |-> 0]

Found(f) == IF f.found = <<>> THEN "None" ELSE "Some"

\* get_window_by_name without the check of the actual type.
get_window_by_name_untyped(r, nm) ==
    IF ~r.ok THEN Search("None", NoSearch, 0)
    ELSE CASE r.actual_format_return = 8 ->
                LET res == find(from_raw_parts(r.proper_return, 1, r.nitems_return), 1, nm)
                IN Search(Found(res), res, 1)
           [] r.actual_format_return = 16 ->
                LET res == find(from_raw_parts(r.proper_return, 2, r.nitems_return), 1, nm)
                IN Search(Found(res), res, 1)
           [] r.actual_format_return = 32 ->
                LET res == find(from_raw_parts(r.proper_return, WordBytes, r.nitems_return), 1, nm)
                IN Search(Found(res), res, 1)
           [] OTHER -> Search("None", NoSearch, 1)

\* get_window_by_name without its branch for 16-bit items.
get_window_by_name_no16(r, nm) ==
    IF ~r.ok THEN Search("None", NoSearch, 0)
    ELSE IF r.actual_type_return = XA_WINDOW
    THEN CASE r.actual_format_return = 8 ->
                LET res == find(from_raw_parts(r.proper_return, 1, r.nitems_return), 1, nm)
                IN Search(Found(res), res, 1)
           [] r.actual_format_return = 32 ->
                LET res == find(from_raw_parts(r.proper_return, WordBytes, r.nitems_return), 1, nm)
                IN Search(Found(res), res, 1)
           [] OTHER -> Search("None", NoSearch, 1)
    ELSE Search("None", NoSearch, 1)

\* Session::get_window_by_name on response r.
get_window_by_name(r, nm) ==
    IF ~r.ok THEN Search("None", NoSearch, 0)
    ELSE IF r.actual_type_return = XA_WINDOW
    THEN CASE r.actual_format_return = 8 ->
                LET res == find(from_raw_parts(r.proper_return, 1, r.nitems_return), 1, nm)
                IN Search(Found(res), res, 1)
           [] r.actual_format_return = 16 ->
                LET res == find(from_raw_parts(r.proper_return, 2, r.nitems_return), 1, nm)
                IN Search(Found(res), res, 1)
           [] r.actual_format_return = 32 ->
                LET res == find(from_raw_parts(r.proper_return, WordBytes, r.nitems_return), 1, nm)
                IN Search(Found(res), res, 1)
           [] OTHER -> Search("None", NoSearch, 1)
    ELSE Search("None", NoSearch, 1)

\* Window::active_window (Session::active_window) on response r.
active_window(r) ==
    IF ~r.ok THEN Outcome("NotSupported", <<>>, 0)
    ELSE LET window ==
             CASE r.actual_format_return = 8 ->
                    first(from_raw_parts(r.proper_return, 1, r.nitems_return))
               [] r.actual_format_return = 16 ->
                    first(from_raw_parts(r.proper_return, 2, r.nitems_return))
               [] r.actual_format_return = 32 ->
                    first(from_raw_parts(r.proper_return, WordBytes, r.nitems_return))
               [] OTHER -> <<>>
         IN Outcome(IF window = <<>> THEN "NotSupported" ELSE "Ok", window, 1)

\* No operation has run yet.
NoOperation ==
    /\ prop = NoProperty
    /\ op = "none"
    /\ name = <<>>
    /\ resp = ErrResponse
    /\ result = [tag |-> "none", windows |-> <<>>]
    /\ examined = <<>>
    /\ propFrees = 0
    /\ titleAllocs = 0
    /\ titleFrees = 0

\* The Session variables while SpecCell runs: a server of untitled windows.
PropIdle == titles = [w \in IdPool |-> NullPtr] /\ NoOperation

PropInit == titles \in [IdPool -> TitlePool] /\ NoOperation

\* The responses get_window_property may give while the server holds p.
Responses(p) == {ErrResponse, get_window_property(p)}

SessionGetWindows ==
    /\ op = "none"
    /\ \E p \in Properties : \E r \in Responses(p) :
           LET out == get_windows(r) IN
           /\ op' = "get_windows"
           /\ prop' = p
           /\ resp' = r
           /\ name' = <<>>
           /\ result' = [tag |-> out.tag, windows |-> out.windows]
           /\ examined' = <<>>
           /\ propFrees' = out.frees
           /\ titleAllocs' = 0
           /\ titleFrees' = 0
           /\ UNCHANGED titles
    /\ PropFrame

SessionGetWindowByName ==
    /\ op = "none"
    /\ \E p \in Properties : \E r \in Responses(p) : \E nm \in NamePool :
           LET out == get_window_by_name(r, nm) IN
           /\ op' = "get_window_by_name"
           /\ prop' = p
           /\ resp' = r
           /\ name' = nm
           /\ result' = [tag |-> out.tag, windows |-> out.windows]
           /\ examined' = out.examined
           /\ propFrees' = out.frees
           /\ titleAllocs' = out.titleAllocs
           /\ titleFrees' = out.titleFrees
           /\ UNCHANGED titles
    /\ PropFrame

SessionActiveWindow ==
    /\ op = "none"
    /\ \E p \in Properties : \E r \in Responses(p) :
           LET out == active_window(r) IN
           /\ op' = "active_window"
           /\ prop' = p
           /\ resp' = r
           /\ name' = <<>>
           /\ result' = [tag |-> out.tag, windows |-> out.windows]
           /\ examined' = <<>>
           /\ propFrees' = out.frees
           /\ titleAllocs' = 0
           /\ titleFrees' = 0
           /\ UNCHANGED titles
    /\ PropFrame

\* The caller is done with what the operation returned and drops it; the
\* Session is ready for its next operation.
DropResult ==
    /\ op # "none"
    /\ op' = "none"
    /\ prop' = NoProperty
    /\ resp' = ErrResponse
    /\ name' = <<>>
    /\ result' = [tag |-> "none", windows |-> <<>>]
    /\ examined' = <<>>
    /\ propFrees' = 0
    /\ titleAllocs' = 0
    /\ titleFrees' = 0
    /\ UNCHANGED titles
    /\ PropFrame

PropNext ==
    \/ SessionGetWindows
    \/ SessionGetWindowByName
    \/ SessionActiveWindow
    \/ DropResult

\* ------------------------------------------------------------------
\* display.rs, session.rs, window.rs: who owns the native connection
\* ------------------------------------------------------------------

\* The null pointer XOpenDisplay returns on failure.
NullDisplay == 0
Conns == 1..MaxConns
Ptrs == {NullDisplay} \cup Conns

\* The titles of the example server SpecConn runs against.
ExampleTitles ==
    [w \in IdPool |-> IF w = 20 THEN <<70, 105, 0>> ELSE <<67, 104, 0>>]

ConnInit ==
    /\ nextConn = 0
    /\ displays = [p \in Ptrs |-> 0]
    /\ raws = [p \in Ptrs |-> 0]
    /\ intoRaws = [p \in Ptrs |-> 0]
    /\ sessions = [p \in Ptrs |-> FALSE]
    /\ root_window = [p \in Ptrs |-> FALSE]
    /\ windows = [p \in Ptrs |-> 0]
    /\ strong = [p \in Ptrs |-> 0]
    /\ closeCalls = [p \in Ptrs |-> 0]
    /\ lastOpen = [call |-> "none", x_display |-> NullDisplay, some |-> FALSE]

\* Display::open without the is_null check.
open_unchecked(x_display) == [some |-> TRUE, ptr |-> x_display]

\* Display::open on the pointer XOpenDisplay returned: None, or Some(Display(ptr)).
open(x_display) ==
    IF x_display = NullDisplay
    THEN [some |-> FALSE, ptr |-> NullDisplay]
    ELSE [some |-> TRUE, ptr |-> x_display]

\* What XOpenDisplay may return: null, or the next connection.
XOpenDisplay == {NullDisplay} \cup (IF nextConn < MaxConns THEN {nextConn + 1} ELSE {})

Opened(x) == IF x = NullDisplay THEN nextConn ELSE nextConn + 1

\* Rc::clone(&display)
rc_clone(n) == n + 1

\* Dropping one Rc<Display> of p when k of them go at once: the strong count
\* falls, and Drop for Display (XCloseDisplay) runs when it reaches zero.
RcDrop(p, k) ==
    /\ strong' = [strong EXCEPT ![p] = @ - k]
    /\ closeCalls' = [closeCalls EXCEPT ![p] = IF strong[p] - k = 0 THEN @ + 1 ELSE @]

\* A Window clone that copies the display pointer without Rc::clone.
window_clone_uncounted(n) == n

\* Clone for Window: the new Window's Rc::clone raises the strong count.
window_clone(n) == rc_clone(n)

\* Display::open()
DisplayOpen ==
    /\ \E x \in XOpenDisplay :
           LET r == open(x) IN
           /\ nextConn' = Opened(x)
           /\ lastOpen' = [call |-> "Display::open", x_display |-> x, some |-> r.some]
           /\ displays' = IF r.some THEN [displays EXCEPT ![r.ptr] = @ + 1] ELSE displays
           /\ UNCHANGED <<raws, intoRaws, sessions, root_window, windows, strong, closeCalls>>
    /\ ConnFrame

\* Session::open(): Rc::new(Display::open()?) with the three caches unresolved.
SessionOpen ==
    /\ \E x \in XOpenDisplay :
           LET r == open(x) IN
           /\ nextConn' = Opened(x)
           /\ lastOpen' = [call |-> "Session::open", x_display |-> x, some |-> r.some]
           /\ sessions' = IF r.some THEN [sessions EXCEPT ![r.ptr] = TRUE] ELSE sessions
           /\ strong' = IF r.some THEN [strong EXCEPT ![r.ptr] = 1] ELSE strong
           /\ UNCHANGED <<displays, raws, intoRaws, root_window, windows, closeCalls>>
    /\ ConnFrame

\* impl Drop for Display: XCloseDisplay(self.0)
DisplayDrop(p) ==
    /\ displays[p] > 0
    /\ displays' = [displays EXCEPT ![p] = @ - 1]
    /\ closeCalls' = [closeCalls EXCEPT ![p] = @ + 1]
    /\ UNCHANGED <<nextConn, raws, intoRaws, sessions, root_window, windows, strong, lastOpen>>
    /\ ConnFrame

\* Display::into_raw(self): the pointer is copied out and self, which is not
\* forgotten, is dropped as the function returns.
IntoRaw(p) ==
    /\ displays[p] > 0
    /\ intoRaws[p] < MaxIntoRaw
    /\ raws' = [raws EXCEPT ![p] = @ + 1]
    /\ intoRaws' = [intoRaws EXCEPT ![p] = @ + 1]
    /\ displays' = [displays EXCEPT ![p] = @ - 1]
    /\ closeCalls' = [closeCalls EXCEPT ![p] = @ + 1]
    /\ UNCHANGED <<nextConn, sessions, root_window, windows, strong, lastOpen>>
    /\ ConnFrame

\* Display::from_raw(display), on a pointer into_raw returned.
FromRaw(p) ==
    /\ raws[p] > 0
    /\ raws' = [raws EXCEPT ![p] = @ - 1]
    /\ displays' = [displays EXCEPT ![p] = @ + 1]
    /\ UNCHANGED <<nextConn, intoRaws, sessions, root_window, windows, strong, closeCalls, lastOpen>>
    /\ ConnFrame

\* Session::from_display(display): display.shared() moves it into a new Rc.
SessionFromDisplay(p) ==
    /\ displays[p] > 0
    /\ ~sessions[p] /\ strong[p] = 0
    /\ displays' = [displays EXCEPT ![p] = @ - 1]
    /\ sessions' = [sessions EXCEPT ![p] = TRUE]
    /\ strong' = [strong EXCEPT ![p] = 1]
    /\ UNCHANGED <<nextConn, raws, intoRaws, root_window, windows, closeCalls, lastOpen>>
    /\ ConnFrame

\* The strong count after Session::root(): the first call stores
\* Window::default_root_window(Rc::clone(&self.display)) in the cache.
root(p) == IF root_window[p] THEN strong[p] ELSE rc_clone(strong[p])

\* Session::root()
SessionRoot(p) ==
    /\ sessions[p]
    /\ ~root_window[p]
    /\ strong' = [strong EXCEPT ![p] = root(p)]
    /\ root_window' = [root_window EXCEPT ![p] = TRUE]
    /\ UNCHANGED <<nextConn, displays, raws, intoRaws, sessions, windows, closeCalls, lastOpen>>
    /\ ConnFrame

\* A Session operation that returned n Window values: root() is resolved, the
\* root.clone() handed to get_window_property is dropped inside the call, and
\* each returned Window holds one Rc::clone(display).
Returned(p, n) ==
    /\ sessions[p]
    /\ windows[p] + n <= MaxWindows
    /\ root_window' = [root_window EXCEPT ![p] = TRUE]
    /\ windows' = [windows EXCEPT ![p] = @ + n]
    /\ strong' = [strong EXCEPT ![p] = root(p) + n]
    /\ UNCHANGED <<nextConn, displays, raws, intoRaws, sessions, closeCalls, lastOpen>>
    /\ ConnFrame

\* The property values of the example server: a prefix of <<10, 20, 300, ..>>
\* as a window list or as a cardinal list, in a supported width or not.
ConnProperties ==
    {q \in Properties :
        /\ q.format \in {0, 32}
        /\ \A i \in 1..Len(q.items) : q.items[i] = (IF i = 3 THEN 300 ELSE 10 * i)}

ConnResponses == UNION {Responses(q) : q \in ConnProperties}

\* Session::get_windows(), its Windows kept by the caller.
ConnGetWindows(p) ==
    /\ sessions[p]
    /\ \E n \in {Len(get_windows(r).windows) :
                   r \in ConnResponses} :
           Returned(p, n)

\* Session::get_window_by_name(name): the Windows find() rejects are dropped
\* as it goes, the match is kept by the caller.
ConnGetWindowByName(p) ==
    /\ sessions[p]
    /\ \E n \in {Len(get_window_by_name(rn[1], rn[2]).windows) :
                   rn \in ConnResponses \X NamePool} :
           Returned(p, n)

\* Session::active_window()
ConnActiveWindow(p) ==
    /\ sessions[p]
    /\ \E n \in {Len(active_window(r).windows) :
                   r \in ConnResponses} :
           Returned(p, n)

\* Window::clone() of a live Window (a returned one, or the cached root).
WindowClone(p) ==
    /\ windows[p] > 0 \/ (sessions[p] /\ root_window[p])
    /\ windows[p] < MaxWindows
    /\ windows' = [windows EXCEPT ![p] = @ + 1]
    /\ strong' = [strong EXCEPT ![p] = window_clone(@)]
    /\ UNCHANGED <<nextConn, displays, raws, intoRaws, sessions, root_window, closeCalls, lastOpen>>
    /\ ConnFrame

\* A Window value is dropped: its Rc<Display> goes.
WindowDrop(p) ==
    /\ windows[p] > 0
    /\ windows' = [windows EXCEPT ![p] = @ - 1]
    /\ RcDrop(p, 1)
    /\ UNCHANGED <<nextConn, displays, raws, intoRaws, sessions, root_window, lastOpen>>
    /\ ConnFrame

\* The Session is dropped: its display Rc and, when resolved, the cached root
\* Window's Rc go.
SessionDrop(p) ==
    /\ sessions[p]
    /\ sessions' = [sessions EXCEPT ![p] = FALSE]
    /\ root_window' = [root_window EXCEPT ![p] = FALSE]
    /\ RcDrop(p, IF root_window[p] THEN 2 ELSE 1)
    /\ UNCHANGED <<nextConn, displays, raws, intoRaws, windows, lastOpen>>
    /\ ConnFrame

ConnNext ==
    \/ DisplayOpen
    \/ SessionOpen
    \/ \E p \in Ptrs :
        \/ DisplayDrop(p)
        \/ IntoRaw(p)
        \/ FromRaw(p)
        \/ SessionFromDisplay(p)
        \/ SessionRoot(p)
        \/ ConnGetWindows(p)
        \/ ConnGetWindowByName(p)
        \/ ConnActiveWindow(p)
        \/ WindowClone(p)
        \/ WindowDrop(p)
        \/ SessionDrop(p)


\* ------------------------------------------------------------------ Window
\* Xlib allocations a Window operation can receive: the buffer of a title, the
\* XImage structure of a capture and the pixel data that structure points to.
Blocks == {"title", "header", "data"}

\* XFree(address of block b): releases that one allocation.
XFree(h, f, b) ==
    [heap |-> [h EXCEPT ![b] = "freed"], xfrees |-> [f EXCEPT ![b] = @ + 1]]

NoRequest == [fn |-> "none", window |-> 0, typ |-> "none", code |-> 0,
              modifiers |-> 0, x |-> 0, y |-> 0]

NoAttr == [x |-> 0, y |-> 0, width |-> 0, height |-> 0]

NoTitle == [state |-> "none", buf |-> NullPtr]

NoImg == [state |-> "none", ptr |-> "null", width |-> 0, height |-> 0]

NoOutput == [n |-> 0, slice |-> <<>>, rows |-> <<>>]

NoGray == [r |-> 0, g |-> 0, b |-> 0, wide |-> 0, value |-> 0]

WinInit ==
    /\ wop = "none"
    /\ req = NoRequest
    /\ attr = NoAttr
    /\ events = <<>>
    /\ wtitle = NoTitle
    /\ img = NoImg
    /\ heap = [b \in Blocks |-> "none"]
    /\ xfrees = [b \in Blocks |-> 0]
    /\ got = NoOutput
    /\ panicked = FALSE
    /\ gray = NoGray

\* ---- get_title and WindowTitle
\* get_title that releases the buffer before handing the title got.
get_title_eager(buf) ==
    IF buf # NullPtr
    THEN [title |-> [state |-> "alive", buf |-> buf], alloc |-> "freed", free |-> 1]
    ELSE [title |-> [state |-> "Null", buf |-> NullPtr], alloc |-> "none", free |-> 0]

\* Window::get_title, XGetWMName having put buf in text_property.value:
\* Ok(WindowTitle) borrowing the buffer, or Err(Null).
get_title(buf) ==
    IF buf # NullPtr
    THEN [title |-> [state |-> "alive", buf |-> buf], alloc |-> "live", free |-> 0]
    ELSE [title |-> [state |-> "Null", buf |-> NullPtr], alloc |-> "none", free |-> 0]

GetTitle ==
    /\ wop = "none"
    /\ \E buf \in TitlePool :
           LET res == get_title(buf) IN
           /\ wtitle' = res.title
           /\ heap' = [heap EXCEPT !["title"] = res.alloc]
           /\ xfrees' = [xfrees EXCEPT !["title"] = res.free]
    /\ wop' = "get_title"
    /\ UNCHANGED <<req, attr, events, img, got, panicked, gray>>
    /\ WinFrame

\* AsRef<CStr> for WindowTitle, then to_bytes: the title's bytes, read from the
\* buffer (whatever a released buffer holds by then if it was released).
TitleAsRef ==
    /\ wtitle.state = "alive"
    /\ \E bytes \in (IF heap["title"] = "live" THEN {to_bytes(wtitle.buf)}
                     ELSE {to_bytes(b) : b \in TitlePool \ {NullPtr}}) :
           got' = [NoOutput EXCEPT !.slice = bytes]
    /\ wop' = "title_as_ref"
    /\ UNCHANGED <<req, attr, events, wtitle, img, heap, xfrees, panicked, gray>>
    /\ WinFrame

\* Drop for WindowTitle: XFree of the buffer the title borrows.
TitleDrop ==
    /\ wtitle.state = "alive"
    /\ LET res == XFree(heap, xfrees, "title") IN
           /\ heap' = res.heap
           /\ xfrees' = res.xfrees
    /\ wtitle' = [wtitle EXCEPT !.state = "dropped"]
    /\ wop' = "title_drop"
    /\ UNCHANGED <<req, attr, events, img, got, panicked, gray>>
    /\ WinFrame

\* ---- get_attr, capture and XImg
\* Offsets of a window inside its parent, and pointer positions a caller passes.
OffsetPool == {-1, 0, 2}

\* What XGetWindowAttributes fills in (all zero when the request fails).
Attrs == [x : OffsetPool, y : OffsetPool, width : 0..MaxDim, height : 0..MaxDim]

\* XGetImage(display, window, 0, 0, width, height, ..): a new XImage ("header")
\* with its pixel data, or a null pointer; which of the two a zero-area
\* request gives depends on the server.
XGetImage(width, height) ==
    IF width = 0 \/ height = 0 THEN {"null", "header"} ELSE {"header"}

\* The pixels of the image, each named by its position in the data.
Data(i) == [k \in 1..(i.width * i.height) |-> k]

\* <[T]>::windows(n) of the standard library for n > 0: every run of n
\* consecutive elements, in order of its first element.
slice_windows(sl, n) ==
    IF Len(sl) < n THEN <<>>
    ELSE [k \in 1..(Len(sl) - n + 1) |-> SubSeq(sl, k, k + n - 1)]

\* Deref for XImg: height * width elements from (*img).data.
deref(i) == SubSeq(Data(i), 1, i.height * i.width)

\* XImg::rows: self.deref().windows(self.width()).
rows(i) == slice_windows(deref(i), i.width)

\* Drop for XImg: XFree(self.img); XFree of a null pointer releases nothing.
drop_ximg(i, h, f) ==
    IF i.ptr = "null" THEN [heap |-> h, xfrees |-> f] ELSE XFree(h, f, "header")

Capture ==
    /\ wop = "none"
    /\ \E a \in Attrs : \E p \in XGetImage(a.width, a.height) :
           /\ attr' = a
           /\ img' = [state |-> "alive", ptr |-> p, width |-> a.width, height |-> a.height]
           /\ heap' = IF p = "null" THEN heap
                      ELSE [heap EXCEPT !["header"] = "live", !["data"] = "live"]
    /\ wop' = "capture"
    /\ UNCHANGED <<req, events, wtitle, xfrees, got, panicked, gray>>
    /\ WinFrame

\* A panic inside an accessor: the unwinding drops the XImg.
Unwind ==
    /\ panicked' = TRUE
    /\ got' = NoOutput
    /\ img' = [img EXCEPT !.state = "dropped"]
    /\ LET res == drop_ximg(img, heap, xfrees) IN
           /\ heap' = res.heap
           /\ xfrees' = res.xfrees

\* An accessor returning value v.
Return(v) ==
    /\ got' = v
    /\ UNCHANGED <<img, heap, xfrees, panicked>>

\* XImg::width, through AsRef<XImage>: self.img.as_ref().unwrap().
ImgWidth ==
    /\ img.state = "alive"
    /\ wop' = "width"
    /\ IF img.ptr = "null" THEN Unwind
       ELSE Return([NoOutput EXCEPT !.n = img.width])
    /\ UNCHANGED <<req, attr, events, wtitle, gray>>
    /\ WinFrame

\* XImg::height.
ImgHeight ==
    /\ img.state = "alive"
    /\ wop' = "height"
    /\ IF img.ptr = "null" THEN Unwind
       ELSE Return([NoOutput EXCEPT !.n = img.height])
    /\ UNCHANGED <<req, attr, events, wtitle, gray>>
    /\ WinFrame

\* Deref for XImg: the pixel slice.
ImgDeref ==
    /\ img.state = "alive"
    /\ wop' = "deref"
    /\ IF img.ptr = "null" THEN Unwind
       ELSE Return([NoOutput EXCEPT !.slice = deref(img)])
    /\ UNCHANGED <<req, attr, events, wtitle, gray>>
    /\ WinFrame

\* XImg::rows, collected; slice::windows panics on size 0.
ImgRows ==
    /\ img.state = "alive"
    /\ wop' = "rows"
    /\ IF img.ptr = "null" \/ img.width = 0 THEN Unwind
       ELSE Return([NoOutput EXCEPT !.rows = rows(img)])
    /\ UNCHANGED <<req, attr, events, wtitle, gray>>
    /\ WinFrame

ImgDrop ==
    /\ img.state = "alive"
    /\ wop' = "img_drop"
    /\ img' = [img EXCEPT !.state = "dropped"]
    /\ LET res == drop_ximg(img, heap, xfrees) IN
           /\ heap' = res.heap
           /\ xfrees' = res.xfrees
    /\ UNCHANGED <<req, attr, events, wtitle, got, panicked, gray>>
    /\ WinFrame

\* ---- send_key and send_btn
Types == {"Press", "Release"}

\* KeyType::mask.
key_mask(typ) ==
    CASE typ = "Press" -> "KeyPressMask"
      [] typ = "Release" -> "KeyReleaseMask"

\* From<KeyType> for c_int.
key_into(typ) ==
    CASE typ = "Press" -> "KeyPress"
      [] typ = "Release" -> "KeyRelease"

\* ButtonType::mask answering ButtonPressMask for both subtypes.
btn_mask_press(typ) ==
    CASE typ = "Press" -> "ButtonPressMask"
      [] typ = "Release" -> "ButtonPressMask"

\* ButtonType::mask.
btn_mask(typ) ==
    CASE typ = "Press" -> "ButtonPressMask"
      [] typ = "Release" -> "ButtonReleaseMask"

\* From<ButtonType> for c_int.
btn_into(typ) ==
    CASE typ = "Press" -> "ButtonPress"
      [] typ = "Release" -> "ButtonRelease"

\* Window::send: one XSendEvent(display, self.window, True, mask, &mut ev).
send(w, ev, mask) == [dest |-> w, propagate |-> TRUE, mask |-> mask, ev |-> ev]

\* Key symbols a caller passes (XK_a, XK_Return), the key codes
\* XKeysymToKeycode answers (0: the symbol is on no key), buttons and
\* modifier masks.
KeysymPool == {97, 65293}
KeycodePool == {0, 38}
ButtonPool == {1, 3}
ModifierPool == {0, 1}

\* Window::send_key of Window w, the server mapping the symbol to code.
send_key(w, typ, code, modifiers) ==
    LET mask == key_mask(typ)
        ev == [type_ |-> key_into(typ), send_event |-> 1, window |-> w,
               x |-> 1, y |-> 1, x_root |-> 1, y_root |-> 1,
               state |-> modifiers, keycode |-> code, same_screen |-> TRUE]
    IN <<send(w, ev, mask)>>

\* Window::send_btn of Window w whose attributes are a.
send_btn(w, typ, button, x, y, modifiers, a) ==
    LET mask == btn_mask(typ)
        x1 == x + a.x
        y1 == y + a.y
        ev == [type_ |-> btn_into(typ), send_event |-> 1, window |-> w,
               x |-> x1, y |-> y1, x_root |-> x1, y_root |-> y1,
               state |-> modifiers, button |-> button, same_screen |-> TRUE]
    IN <<send(w, ev, mask)>>

SendKey ==
    /\ wop = "none"
    /\ \E w \in IdPool : \E typ \in Types : \E sym \in KeysymPool :
       \E code \in KeycodePool : \E m \in ModifierPool :
           /\ req' = [fn |-> "send_key", window |-> w, typ |-> typ, code |-> sym,
                      modifiers |-> m, x |-> 0, y |-> 0]
           /\ events' = send_key(w, typ, code, m)
    /\ wop' = "send_key"
    /\ UNCHANGED <<attr, wtitle, img, heap, xfrees, got, panicked, gray>>
    /\ WinFrame

SendBtn ==
    /\ wop = "none"
    /\ \E w \in IdPool : \E typ \in Types : \E b \in ButtonPool :
       \E x \in OffsetPool : \E y \in OffsetPool : \E m \in ModifierPool :
       \E a \in Attrs :
           /\ req' = [fn |-> "send_btn", window |-> w, typ |-> typ, code |-> b,
                      modifiers |-> m, x |-> x, y |-> y]
           /\ attr' = a
           /\ events' = send_btn(w, typ, b, x, y, m, a)
    /\ wop' = "send_btn"
    /\ UNCHANGED <<wtitle, img, heap, xfrees, got, panicked, gray>>
    /\ WinFrame

\* ---- XColor
\* Channel values of a pixel.
ChannelPool == {0, 1, 30, 60, 90, 128, 254, 255}

Colors == [r : ChannelPool, g : ChannelPool, b : ChannelPool]

\* Arithmetic of an unsigned integer type of the given number of bits.
wrap(v, bits) == v % (2 ^ bits)

\* The cast `as u8`.
as_u8(v) == v % (2 ^ 8)

\* grayscale_approx adding the channels as u8.
grayscale_approx_u8(c) ==
    LET wide == wrap(wrap(c.b + c.g, 8) + c.r, 8) \div 3
    IN [r |-> c.r, g |-> c.g, b |-> c.b, wide |-> wide, value |-> as_u8(wide)]

\* XColor::grayscale_approx: the u16 sum of the channels over 3, cast to u8.
grayscale_approx(c) ==
    LET wide == wrap(wrap(c.b + c.g, 16) + c.r, 16) \div 3
    IN [r |-> c.r, g |-> c.g, b |-> c.b, wide |-> wide, value |-> as_u8(wide)]

\* XColor::grayscale: the weighted sum plus 1 << 15, `>> 16`, cast to u8.
\* The sum is computed in u32; for channels of 8 bits it stays below 2^25, so
\* no step of it wraps.
grayscale(c) ==
    LET sum == 19595 * c.r + 38470 * c.g + 7471 * c.b
        wide == (sum + 2 ^ 15) \div (2 ^ 16)
    IN [r |-> c.r, g |-> c.g, b |-> c.b, wide |-> wide, value |-> as_u8(wide)]

GrayscaleApprox ==
    /\ wop = "none"
    /\ \E c \in Colors : gray' = grayscale_approx(c)
    /\ wop' = "grayscale_approx"
    /\ UNCHANGED <<req, attr, events, wtitle, img, heap, xfrees, got, panicked>>
    /\ WinFrame

Grayscale ==
    /\ wop = "none"
    /\ \E c \in Colors : gray' = grayscale(c)
    /\ wop' = "grayscale"
    /\ UNCHANGED <<req, attr, events, wtitle, img, heap, xfrees, got, panicked>>
    /\ WinFrame

\* The values of the last operation go out of scope (a live WindowTitle or
\* XImg is dropped first).
WinDiscard ==
    /\ wop # "none"
    /\ wtitle.state # "alive"
    /\ img.state # "alive"
    /\ wop' = "none"
    /\ req' = NoRequest
    /\ attr' = NoAttr
    /\ events' = <<>>
    /\ wtitle' = NoTitle
    /\ img' = NoImg
    /\ heap' = [b \in Blocks |-> "none"]
    /\ xfrees' = [b \in Blocks |-> 0]
    /\ got' = NoOutput
    /\ panicked' = FALSE
    /\ gray' = NoGray
    /\ WinFrame

WinNext ==
    \/ GetTitle
    \/ TitleAsRef
    \/ TitleDrop
    \/ Capture
    \/ ImgWidth
    \/ ImgHeight
    \/ ImgDeref
    \/ ImgRows
    \/ ImgDrop
    \/ SendKey
    \/ SendBtn
    \/ GrayscaleApprox
    \/ Grayscale
    \/ WinDiscard

\* ------------------------------------------------------------------ specifications
InitCell == CellInit /\ PropIdle /\ ConnInit /\ WinInit

SpecCell == InitCell /\ [][CellNext]_vars

\* The steps of thread t inside get_or_insert_with (entering it is the
\* caller's choice).
Step(t) ==
    \/ AcquireRead(t)
    \/ ReturnCached(t)
    \/ DropRead(t)
    \/ AcquireWrite(t)
    \/ Store(t)
    \/ ReturnStored(t)

\* Fair scheduling: a thread whose next step stays possible takes it; the
\* initializer f terminates (Store is one step).
SpecCellFair == SpecCell /\ \A t \in Threads : WF_vars(Step(t))

Init == PropInit /\ CellInit /\ ConnInit /\ WinInit

Spec == Init /\ [][PropNext]_vars

InitConn == ConnInit /\ CellInit /\ titles = ExampleTitles /\ NoOperation /\ WinInit

SpecConn == InitConn /\ [][ConnNext]_vars

InitWin == WinInit /\ CellInit /\ PropIdle /\ ConnInit

SpecWin == InitWin /\ [][WinNext]_vars

\* ------------------------------------------------------------------
\* The claims
\* ------------------------------------------------------------------

\* Every thread has called the accessor and is back from its calls.
AllReturned == \A t \in Threads : pc[t] = "idle" /\ calls[t] >= 1

\* C1: when several threads call the accessor concurrently on a still
\* unresolved field, the initializer runs exactly once: after every thread
\* has called and returned, the resolution counter is 1.
C1_ResolvedExactlyOnce == AllReturned => resolutions = 1

SupportedWidth(f) == f \in {8, 16, 32}

\* C2: the buffer of every successful get_window_property call made by
\* get_windows, get_window_by_name and active_window is released exactly
\* once before the operation returns, whatever the type and width.
C2_PropertyBufferReleasedOnce ==
    (op # "none" /\ resp.ok) => propFrees = 1

\* get_windows took the unsupported-width branch and released the buffer once.
C2_Witness ==
    /\ op = "get_windows"
    /\ resp.ok
    /\ resp.actual_type_return = XA_WINDOW
    /\ ~SupportedWidth(resp.actual_format_return)
    /\ propFrees = 1

\* C3: every title buffer the server hands to get_window_by_name (through
\* match_title) is released within the operation: as many releases as
\* non-null title buffers.
C3_TitleBuffersReleased ==
    op = "get_window_by_name" => titleFrees = titleAllocs

\* C5: active_window returns the first identifier of the property, and
\* NotSupported when the property is empty, of another type than the window
\* type, or of a width other than 8, 16, 32.
C5_ActiveWindowChecked ==
    (op = "active_window" /\ resp.ok) =>
        IF /\ prop.type = XA_WINDOW
           /\ SupportedWidth(prop.format)
           /\ prop.items # <<>>
        THEN result = [tag |-> "Ok", windows |-> <<prop.items[1]>>]
        ELSE result = [tag |-> "NotSupported", windows |-> <<>>]

\* The response is of another type, or of a width other than 8, 16, 32.
Undecodable ==
    resp.ok /\ (prop.type # XA_WINDOW \/ ~SupportedWidth(prop.format))

\* C6: on a response of another type, or of the window type with a width other
\* than 8, 16, 32, get_windows returns NotSupported and get_window_by_name
\* returns absence, and no Window is built from the buffer.
C6_UndecodableRejected ==
    /\ (op = "get_windows" /\ Undecodable) =>
           result = [tag |-> "NotSupported", windows |-> <<>>]
    /\ (op = "get_window_by_name" /\ Undecodable) =>
           result = [tag |-> "None", windows |-> <<>>] /\ examined = <<>>

\* Whether the server's title of w is exactly nm.
TitleIs(w, nm) == titles[w] = nm \o <<0>>

\* get_window_by_name met a wrongly typed list holding a window of that title.
C6_Witness ==
    /\ op = "get_window_by_name"
    /\ resp.ok
    /\ prop.type # XA_WINDOW
    /\ prop.format = 32
    /\ \E i \in 1..Len(prop.items) : TitleIs(prop.items[i], name)
    /\ result.tag = "None"

\* C7: on a response of the window type with width 8, 16 or 32 and n items,
\* get_windows returns n Windows, the i-th carrying the server's i-th identifier.
C7_WindowsInServerOrder ==
    (/\ op = "get_windows"
     /\ resp.ok
     /\ prop.type = XA_WINDOW
     /\ SupportedWidth(prop.format)) =>
        result = [tag |-> "Ok", windows |-> prop.items]

\* A 32-bit list of two windows, the first wider than a byte, came back in order.
C7_Witness ==
    /\ op = "get_windows"
    /\ resp.ok
    /\ prop = [type |-> XA_WINDOW, format |-> 32, items |-> <<300, 10>>]
    /\ result.windows = <<300, 10>>

\* The positions of the listed windows titled nm.
Matches(its, nm) == {i \in 1..Len(its) : TitleIs(its[i], nm)}

Least(S) == CHOOSE i \in S : \A j \in S : i <= j

\* C8: get_window_by_name returns the listed window of lowest position whose
\* title equals the name byte for byte, absence when there is none; untitled
\* windows never match; no window after the first match is examined.
C8_FirstMatch ==
    (/\ op = "get_window_by_name"
     /\ resp.ok
     /\ prop.type = XA_WINDOW
     /\ SupportedWidth(prop.format)) =>
        LET M == Matches(prop.items, name) IN
        IF M = {}
        THEN result = [tag |-> "None", windows |-> <<>>] /\ examined = prop.items
        ELSE /\ result = [tag |-> "Some", windows |-> <<prop.items[Least(M)]>>]
             /\ examined = SubSeq(prop.items, 1, Least(M))

\* Two listed windows share the title searched for; the first is returned and
\* the second is not examined.
C8_Witness ==
    /\ op = "get_window_by_name"
    /\ resp.ok
    /\ prop.type = XA_WINDOW
    /\ SupportedWidth(prop.format)
    /\ Cardinality(Matches(prop.items, name)) = 2
    /\ result.tag = "Some"
    /\ Len(examined) = 1

\* The values holding connection p alive.
Holders(p) ==
    displays[p] + windows[p]
    + (IF sessions[p] THEN 1 ELSE 0) + (IF root_window[p] THEN 1 ELSE 0)

\* C4: for a connection owned only through Sessions and Windows (never passed
\* through into_raw), XCloseDisplay has not been called while a Session, its
\* cached root or any Window is alive, and has been called exactly once when
\* all of them are gone.
C4_ClosedOnceByLastHolder ==
    \A p \in Conns :
        (p <= nextConn /\ intoRaws[p] = 0) =>
            closeCalls[p] = (IF Holders(p) > 0 THEN 0 ELSE 1)

\* The Session is gone, Windows it produced are alive, the connection is open.
C4_Witness ==
    \E p \in Conns :
        /\ intoRaws[p] = 0
        /\ ~sessions[p]
        /\ windows[p] >= 2
        /\ closeCalls[p] = 0

\* C9: into_raw hands the connection over without closing it: while the caller
\* holds the raw pointer no XCloseDisplay has been made on it, and once the
\* Display rebuilt by from_raw is dropped the connection was closed exactly once.
C9_IntoRawKeepsOpen ==
    \A p \in Conns :
        /\ raws[p] > 0 => closeCalls[p] = 0
        /\ (p <= nextConn /\ Holders(p) = 0 /\ raws[p] = 0) => closeCalls[p] = 1

\* C10: an open that gets a null handle returns the failure outcome and no
\* close is ever issued for it; a connection that was opened and whose owner
\* was dropped has exactly one close.
C10_OpenFailsOrClosesOnce ==
    /\ (lastOpen.call # "none" /\ lastOpen.x_display = NullDisplay) => ~lastOpen.some
    /\ (lastOpen.call # "none" /\ lastOpen.x_display # NullDisplay) => lastOpen.some
    /\ Holders(NullDisplay) = 0 /\ closeCalls[NullDisplay] = 0
    /\ \A p \in Conns :
           (p <= nextConn /\ intoRaws[p] = 0 /\ Holders(p) = 0) => closeCalls[p] = 1

\* A Session was opened and dropped, closing its connection once, and the next
\* Session::open failed.
C10_Witness ==
    /\ lastOpen = [call |-> "Session::open", x_display |-> NullDisplay, some |-> FALSE]
    /\ \E p \in Conns : p <= nextConn /\ closeCalls[p] = 1 /\ intoRaws[p] = 0

\* C13: a cached field goes one way, Unresolved to Resolved: once a value is
\* stored the field stays Resolved in every later state, and every accessor
\* call returns with the field Resolved.
C13_OneWayResolved ==
    [][/\ cell # 0 => cell' # 0
       /\ \A t \in Threads : (pc[t] # "idle" /\ pc'[t] = "idle") => cell' # 0]_vars

\* A thread's second call returned from the resolved field.
C13_Witness ==
    \E t \in Threads : calls[t] = 2 /\ pc[t] = "idle" /\ ret[t] # 0 /\ cell # 0

\* C18: once get_or_insert_with has returned a reference to the stored value,
\* the cell is never written again: every reference handed out still refers
\* to the value the cell holds.
C18_NoStoreAfterReturn ==
    \A t \in Threads : ret[t] # 0 => cell = ret[t]

\* C19: under fair scheduling every call of get_or_insert_with eventually
\* returns, and a thread that is not inside a call holds neither the read lock
\* nor the write lock.
C19_CallsReturnUnlocked ==
    /\ [](\A t \in Threads : pc[t] = "idle" => (t \notin readers /\ writer # t))
    /\ \A t \in Threads : (pc[t] # "idle") ~> (pc[t] = "idle")

\* Two threads went through the write lock one after the other and both returned.
C19_Witness == AllReturned /\ resolutions >= 2 /\ readers = {} /\ writer = NoThread

\* C20: against the same server state get_window_by_name agrees with
\* get_windows: it returns the first element of the get_windows result whose
\* title equals the name, and absence exactly when get_windows fails with
\* NotSupported or no element of its result has that title.
C20_ByNameAgreesWithGetWindows ==
    op = "get_window_by_name" =>
        LET all == get_windows(resp)
            M == Matches(all.windows, name) IN
        IF all.tag = "NotSupported" \/ M = {}
        THEN result = [tag |-> "None", windows |-> <<>>]
        ELSE result = [tag |-> "Some", windows |-> <<all.windows[Least(M)]>>]

\* A 16-bit list of two windows whose second element has the title.
C20_Witness ==
    /\ op = "get_window_by_name"
    /\ resp.ok
    /\ resp.actual_format_return = 16
    /\ get_windows(resp).tag = "Ok"
    /\ Len(get_windows(resp).windows) = 2
    /\ Matches(get_windows(resp).windows, name) = {2}
    /\ result.tag = "Some"

\* C11: capturing a window of zero width or height (the native call may give
\* a null image) yields a zero-length pixel sequence, and neither capture nor
\* reading the width, the height or the pixel slice nor the drop crashes.
C11_ZeroAreaCaptureSafe ==
    (/\ wop \in {"capture", "width", "height", "deref", "img_drop"}
     /\ (attr.width = 0 \/ attr.height = 0)) =>
        /\ ~panicked
        /\ wop = "deref" => got.slice = <<>>

\* C12: get_title gives Null for a null title buffer and releases nothing;
\* otherwise it gives a title whose buffer stays allocated while the title value
\* lives and is released exactly once, by the drop of the title value.
C12_TitleReleasedOnDrop ==
    /\ wtitle.state = "Null" => (heap["title"] = "none" /\ xfrees["title"] = 0)
    /\ wtitle.state = "alive" => (heap["title"] = "live" /\ xfrees["title"] = 0)
    /\ wtitle.state = "dropped" => (heap["title"] = "freed" /\ xfrees["title"] = 1)
    /\ wop = "get_title" => (wtitle.state = "Null" <=> wtitle.buf = NullPtr)
    /\ wop = "title_as_ref" => got.slice = to_bytes(wtitle.buf)

\* A title was read and then dropped.
C12_Witness ==
    /\ wop = "title_drop"
    /\ wtitle.state = "dropped"
    /\ got.slice # <<>>
    /\ xfrees["title"] = 1

\* C14: grayscale_approx is floor((r + g + b) / 3) and grayscale is
\* (19595 r + 38470 g + 7471 b + 2^15) >> 16, the value before the cast to u8
\* lying in 0..255; grayscale_approx of b = 30, g = 60, r = 90 is 60 and
\* grayscale of a gray (v, v, v) is v.
C14_GrayscaleValues ==
    /\ wop = "grayscale_approx" =>
          /\ gray.value = (gray.r + gray.g + gray.b) \div 3
          /\ gray.wide \in 0..255
          /\ (gray.b = 30 /\ gray.g = 60 /\ gray.r = 90) => gray.value = 60
    /\ wop = "grayscale" =>
          /\ gray.value = (19595 * gray.r + 38470 * gray.g + 7471 * gray.b + 32768) \div 65536
          /\ gray.wide \in 0..255
          /\ (gray.r = gray.g /\ gray.g = gray.b) => gray.value = gray.r

\* grayscale_approx of white, whose channel sum needs more than 8 bits.
C14_Witness ==
    /\ wop = "grayscale_approx"
    /\ gray.r = 255 /\ gray.g = 255 /\ gray.b = 255
    /\ gray.value = 255

\* C15: send_key and send_btn send one event to their window, whose subtype
\* and mask belong together (Press with the press mask, Release with the
\* release mask); the coordinates of send_btn's event, window-relative and
\* root alike, are the caller's plus the offset of the window's attributes.
C15_EventPairing ==
    /\ wop = "send_key" =>
          /\ Len(events) = 1
          /\ events[1].dest = req.window
          /\ events[1].ev.window = req.window
          /\ req.typ = "Press" =>
                (events[1].ev.type_ = "KeyPress" /\ events[1].mask = "KeyPressMask")
          /\ req.typ = "Release" =>
                (events[1].ev.type_ = "KeyRelease" /\ events[1].mask = "KeyReleaseMask")
    /\ wop = "send_btn" =>
          /\ Len(events) = 1
          /\ events[1].dest = req.window
          /\ events[1].ev.window = req.window
          /\ req.typ = "Press" =>
                (events[1].ev.type_ = "ButtonPress" /\ events[1].mask = "ButtonPressMask")
          /\ req.typ = "Release" =>
                (events[1].ev.type_ = "ButtonRelease" /\ events[1].mask = "ButtonReleaseMask")
          /\ events[1].ev.x = req.x + attr.x
          /\ events[1].ev.y = req.y + attr.y
          /\ events[1].ev.x_root = req.x + attr.x
          /\ events[1].ev.y_root = req.y + attr.y

\* A button release on a window whose attributes move both coordinates.
C15_Witness ==
    /\ wop = "send_btn"
    /\ req.typ = "Release"
    /\ req.x = -1 /\ attr.x = 2 /\ req.y = 2 /\ attr.y = -1
    /\ events[1].ev.x = 1 /\ events[1].ev.y = 1

\* C16: rows of an image of width w > 0 and height h yields exactly h slices,
\* the i-th being the pixels [i*w, (i+1)*w), and does not crash when w = 0.
C16_RowsAreRows ==
    (wop = "rows" /\ img.ptr = "header") =>
        /\ ~panicked
        /\ img.width > 0 =>
              got.rows = [i \in 1..img.height |->
                             [k \in 1..img.width |-> (i - 1) * img.width + k]]

\* C17: the memory of a captured image, header and pixel data, is allocated
\* while the XImg lives and all of it is released, once, by the drop of the XImg.
C17_ImageReleasedOnDrop ==
    /\ (img.state = "alive" /\ img.ptr = "header") =>
          /\ heap["header"] = "live" /\ heap["data"] = "live"
          /\ xfrees["header"] = 0 /\ xfrees["data"] = 0
    /\ (img.state = "dropped" /\ img.ptr = "header") =>
          /\ heap["header"] = "freed" /\ heap["data"] = "freed"
          /\ xfrees["header"] = 1

====
